---- MODULE Spec2Model ----
(***************************************************************************)
(* Model of scripts/pr_manager.py and scripts/manage_prs.py: the two main  *)
(* functions, PRManager.process_all_prs and the functions it calls, run    *)
(* against an abstract git repository.                                     *)
(*                                                                         *)
(* The repository is the record `git`: the branches of the remote, the     *)
(* remote-tracking refs (origin/X), the local branches, the checked-out    *)
(* branch, the merge in progress (MERGE_HEAD), the change sets staged in   *)
(* the index, the unmerged paths, the staged MERGE_CONFLICTS.json, the     *)
(* file on disk and the log of every git command the program has issued.   *)
(* A commit is the set of change sets it contains ("T" for the target's    *)
(* own history, a source branch name for the work of that branch) plus     *)
(* whether its tree holds MERGE_CONFLICTS.json.  Every git command may     *)
(* also fail for a reason outside the repository state (lock, network,     *)
(* hook): the `ok` argument of each command.                               *)
(***************************************************************************)
EXTENDS Naturals, Sequences, FiniteSets, TLC

\* ------------------------------------------------------------------ bounds
MaxPRs == 2          \* longest list of requests handed to process_all_prs
MaxFaults == 1       \* most commands that fail for an outside reason in one run

\* ---------------------------------------------------------------- universe
Sources == {"b1", "b2"}
Files == {"f1", "f2"}
FileOrder == <<"f1", "f2">>
MetaFileName == "MERGE_CONFLICTS.json"
T == "T"

\* create_conflict_branch naming every conflict branch after b1.
ConflictBranch_Fixed(branch) == "conflicts/b1"

ConflictBranch(branch) == "conflicts/" \o branch

DefaultNames == {"main", "master"}
\* A default branch with a name the program does not spell out.
OtherDefault == "develop"
\* The branches there may be, in the order in which git lists refs.
RefOrder == <<"b1", "b2", "conflicts/b1", "conflicts/b2",
              "conflicts/conflicts/b1", "develop", "main", "master">>
Refs == {RefOrder[k] : k \in 1..Len(RefOrder)}

Absent == [ok |-> FALSE, has |-> {}, meta |-> FALSE]
Commit(has, meta) == [ok |-> TRUE, has |-> has, meta |-> meta]
NoFile == [present |-> FALSE, source_branch |-> "", target_branch |-> "",
           conflicting_files |-> <<>>]

VARIABLES
    edits,         \* files each change set modifies (fixed for a run)
    git,           \* the repository, local and remote, and the command log
    prs,           \* argument of process_all_prs
    pc,            \* position of the run
    i,             \* loop index of process_all_prs (requests taken so far)
    target,        \* process_all_prs: target
    branch,        \* process_pr: branch
    success,       \* process_pr: success
    conflicts,     \* process_pr: conflicts
    handled,       \* return value of complete_merge / create_conflict_branch
    results,       \* what process_pr has returned, in order, each with the
                   \* index of its request
    merged_prs,    \* PRManager.merged_prs
    conflict_prs,  \* PRManager.conflict_prs
    summary,       \* what print_summary printed
    pre,           \* the repository when the current function was entered
    listing,       \* what the last git status --short of try_merge listed
    argv,          \* the script that runs, its command line and what the
                   \* hosting platform answers
    proc           \* the process: what main learned and printed, and its exit
                   \* status once it has ended

vars == <<edits, git, prs, pc, i, target, branch, success, conflicts, handled,
          results, merged_prs, conflict_prs, summary, pre, listing, argv,
          proc>>

\* --------------------------------------------------------------- run_git
\* One entry of the command log: the request being processed (0 before the
\* loop), the arguments after "git -C <repo>", the exit status, and whether
\* the command was let through by the outside world.
Run(g, args, rc, ok) ==
    [g EXCEPT !.log = Append(@, [req |-> i, args |-> args, rc |-> rc,
                                 ok |-> ok]),
              !.rc = rc]

Faults(log) == Cardinality({k \in 1..Len(log) : ~log[k].ok})

\* ------------------------------------------------------------ git contents
Touched(has) == UNION {edits[c] : c \in has}

\* Paths both sides changed since their common history.
ConflictPaths(theirs, ours) ==
    Touched(theirs.has \ ours.has) \cap Touched(ours.has \ theirs.has)

IsAncestor(a, b) == a.ok /\ b.ok /\ a.has \subseteq b.has /\ (a.meta => b.meta)

MergeOf(theirs, ours) == Commit(theirs.has \cup ours.has, theirs.meta \/ ours.meta)

HeadCommit(g) == g.local[g.head]

\* Something is staged in the index.
IndexDirty(g) == g.staged # {} \/ g.unmerged # {} \/ g.stagedMeta

\* Paths whose content differs between two commits.
DiffPaths(a, b) == Touched((a.has \ b.has) \cup (b.has \ a.has))

\* ------------------------------------------------------------ git commands
\* git fetch --all --prune
GitFetch(g, ok) ==
    IF ok THEN Run([g EXCEPT !.tracking = g.remote],
                   <<"fetch", "--all", "--prune">>, 0, ok)
    ELSE Run(g, <<"fetch", "--all", "--prune">>, 1, ok)

\* Whether the working tree and index allow HEAD to move to commit `to`:
\* no unmerged path, and nothing staged or untracked that the move would
\* overwrite.
CanSwitch(g, to) ==
    LET ours == HeadCommit(g)
    IN  /\ g.unmerged = {}
        /\ Touched(g.staged) \cap DiffPaths(ours, to) = {}
        /\ g.stagedMeta => (to.meta = ours.meta)
        /\ (g.metaFile.present /\ ~ours.meta) => ~to.meta

\* HEAD moved to branch `name` at commit `to`: a merge in progress is dropped
\* (MERGE_HEAD is removed), what is staged stays staged.
Switched(g, name, to) ==
    [g EXCEPT !.head = name, !.local[name] = to, !.mergeHead = Absent,
              !.metaFile = IF HeadCommit(g).meta /\ ~to.meta /\ ~g.stagedMeta
                           THEN NoFile
                           ELSE IF to.meta THEN [@ EXCEPT !.present = TRUE]
                           ELSE @]

\* git checkout <name>
GitCheckout(g, name, ok) ==
    LET args == <<"checkout", name>>
        to == IF g.local[name].ok THEN g.local[name] ELSE g.tracking[name]
    IN  IF ~ok \/ ~to.ok \/ ~CanSwitch(g, to) THEN Run(g, args, 1, ok)
        ELSE Run(Switched(g, name, to), args, 0, ok)

\* git checkout -b <new> origin/<start>
GitCheckoutNew(g, new, start, ok) ==
    LET args == <<"checkout", "-b", new, "origin/" \o start>>
        to == g.tracking[start]
    IN  IF ~ok \/ ~to.ok \/ ~CanSwitch(g, to) THEN Run(g, args, 1, ok)
        ELSE IF g.local[new].ok THEN Run(g, args, 128, ok)
        ELSE Run(Switched(g, new, to), args, 0, ok)

\* The merge machinery shared by git merge and git pull: merge commit
\* `theirs` into the checked-out branch.
MergeInto(g, theirs, noCommit, noFF) ==
    LET ours == HeadCommit(g)
        paths == ConflictPaths(theirs, ours)
        incoming == theirs.has \ ours.has
    IN  IF ~theirs.ok THEN [g EXCEPT !.rc = 1]
        ELSE IF g.mergeHead.ok \/ g.unmerged # {} THEN [g EXCEPT !.rc = 128]
        ELSE IF IsAncestor(theirs, ours) THEN [g EXCEPT !.rc = 0]
        ELSE IF ~noFF /\ IsAncestor(ours, theirs)
             THEN IF CanSwitch(g, theirs)
                  THEN [g EXCEPT !.local[g.head] = theirs, !.rc = 0]
                  ELSE [g EXCEPT !.rc = 1]
        ELSE IF g.staged # {} \/ g.stagedMeta
                \/ (g.metaFile.present /\ ~ours.meta /\ theirs.meta)
             THEN [g EXCEPT !.rc = 2]
        ELSE IF paths # {}
             THEN [g EXCEPT !.mergeHead = theirs, !.staged = incoming,
                            !.unmerged = paths, !.rc = 1]
        ELSE IF noCommit
             THEN [g EXCEPT !.mergeHead = theirs, !.staged = incoming, !.rc = 0]
        ELSE [g EXCEPT !.local[g.head] = MergeOf(theirs, ours), !.rc = 0]

\* git pull origin <name>
GitPull(g, name, ok) ==
    LET args == <<"pull", "origin", name>>
        fetched == [g EXCEPT !.tracking[name] = g.remote[name]]
    IN  IF ~ok THEN Run(g, args, 1, ok)
        ELSE IF g.mergeHead.ok \/ g.unmerged # {} THEN Run(g, args, 128, ok)
        ELSE IF ~g.remote[name].ok THEN Run(g, args, 1, ok)
        ELSE LET m == MergeInto(fetched, g.remote[name], FALSE, FALSE)
             IN  Run(m, args, m.rc, ok)

\* git merge [--no-commit --no-ff] origin/<name>
GitMerge(g, name, noCommit, noFF, ok) ==
    LET args == IF noCommit
                THEN <<"merge", "--no-commit", "--no-ff", "origin/" \o name>>
                ELSE <<"merge", "origin/" \o name>>
    IN  IF ~ok THEN Run(g, args, 1, ok)
        ELSE LET m == MergeInto(g, g.tracking[name], noCommit, noFF)
             IN  Run(m, args, m.rc, ok)

\* git merge --abort: the index and the working tree go back to HEAD.
GitMergeAbort(g, ok) ==
    LET args == <<"merge", "--abort">>
    IN  IF ~ok THEN Run(g, args, 1, ok)
        ELSE IF ~g.mergeHead.ok THEN Run(g, args, 128, ok)
        ELSE Run([g EXCEPT !.mergeHead = Absent, !.staged = {},
                           !.unmerged = {}, !.stagedMeta = FALSE,
                           !.metaFile = IF g.stagedMeta THEN NoFile ELSE @],
                 args, 0, ok)

\* git commit -m <msg>: what is staged becomes a commit of the checked-out
\* branch (a merge commit when a merge is in progress).
GitCommit(g, msg, ok) ==
    LET args == <<"commit", "-m", msg>>
        ours == HeadCommit(g)
        made == Commit(ours.has \cup g.staged \cup g.mergeHead.has,
                       ours.meta \/ g.mergeHead.meta \/ g.stagedMeta)
    IN  IF ~ok THEN Run(g, args, 1, ok)
        ELSE IF g.unmerged # {} THEN Run(g, args, 128, ok)
        ELSE IF ~g.mergeHead.ok /\ ~IndexDirty(g) THEN Run(g, args, 1, ok)
        ELSE Run([g EXCEPT !.local[g.head] = made, !.mergeHead = Absent,
                           !.staged = {}, !.stagedMeta = FALSE],
                 args, 0, ok)

\* git push origin <opts> <name>
IsForce(opts) == opts \cap {"--force", "-f", "--force-with-lease"} # {}

\* A push of a branch that forces the update.
PushArgs_Forced(opts, name) ==
    IF "--delete" \in opts THEN <<"push", "origin", "--delete", name>>
    ELSE <<"push", "origin", "--force", name>>

PushArgs(opts, name) ==
    IF "--delete" \in opts THEN <<"push", "origin", "--delete", name>>
    ELSE IF "--force" \in opts THEN <<"push", "origin", "--force", name>>
    ELSE <<"push", "origin", name>>

GitPush(g, opts, name, ok) ==
    LET args == PushArgs(opts, name)
    IN  IF ~ok THEN Run(g, args, 1, ok)
        ELSE IF "--delete" \in opts
             THEN IF ~g.remote[name].ok THEN Run(g, args, 1, ok)
                  ELSE Run([g EXCEPT !.remote[name] = Absent,
                                     !.tracking[name] = Absent], args, 0, ok)
        ELSE IF ~g.local[name].ok THEN Run(g, args, 1, ok)
        ELSE IF g.remote[name].ok /\ ~IsAncestor(g.remote[name], g.local[name])
                /\ ~IsForce(opts)
             THEN Run(g, args, 1, ok)
        ELSE Run([g EXCEPT !.remote[name] = g.local[name],
                           !.tracking[name] = g.local[name]], args, 0, ok)

\* git add MERGE_CONFLICTS.json
GitAdd(g, ok) ==
    LET args == <<"add", MetaFileName>>
    IN  IF ~ok \/ ~g.metaFile.present THEN Run(g, args, 1, ok)
        ELSE Run([g EXCEPT !.stagedMeta = TRUE], args, 0, ok)

\* git status --short: one line per path that differs, MERGE_CONFLICTS.json
\* (upper case) sorting before the other paths, untracked files last.
StatusLine(g, f) ==
    IF f \in g.unmerged THEN [xy |-> "UU", path |-> f, show |-> TRUE]
    ELSE [xy |-> "M ", path |-> f, show |-> f \in Touched(g.staged)]

StatusShort(g) ==
    LET all == <<[xy |-> "A ", path |-> MetaFileName, show |-> g.stagedMeta]>>
               \o [k \in 1..Len(FileOrder) |-> StatusLine(g, FileOrder[k])]
               \o <<[xy |-> "??", path |-> MetaFileName,
                     show |-> g.metaFile.present /\ ~g.stagedMeta
                              /\ ~HeadCommit(g).meta]>>
        shown == SelectSeq(all, LAMBDA l : l.show)
    IN  [k \in 1..Len(shown) |-> [xy |-> shown[k].xy, path |-> shown[k].path]]

GitStatus(g, ok) ==
    Run(g, <<"status", "--short">>, IF ok THEN 0 ELSE 128, ok)

\* git symbolic-ref refs/remotes/origin/HEAD
GitSymbolicRef(g, ok) ==
    Run(g, <<"symbolic-ref", "refs/remotes/origin/HEAD">>,
        IF ok /\ g.originHead # "" THEN 0 ELSE 1, ok)

\* git rev-parse --verify origin/<name>
GitRevParse(g, name, ok) ==
    Run(g, <<"rev-parse", "--verify", "origin/" \o name>>,
        IF ok /\ g.tracking[name].ok THEN 0 ELSE 1, ok)

\* git branch -r: one line per remote-tracking ref, origin/HEAD first with the
\* ref it points to.  A line is its text in parts: the remote, the ref, and
\* what follows "->" ("" when the line has no arrow).
BranchLine(ref, to) == [remote |-> "origin", ref |-> ref, to |-> to]

BranchRemoteLines(g) ==
    LET here == SelectSeq(RefOrder, LAMBDA r : g.tracking[r].ok)
        refs == [k \in 1..Len(here) |-> BranchLine(here[k], "")]
    IN  IF g.originHead # ""
        THEN <<BranchLine("HEAD", "origin/" \o g.originHead)>> \o refs
        ELSE refs

GitBranchRemote(g, ok) ==
    Run(g, <<"branch", "-r">>, IF ok THEN 0 ELSE 128, ok)

\* git rev-parse --abbrev-ref HEAD
GitRevParseHead(g, ok) ==
    Run(g, <<"rev-parse", "--abbrev-ref", "HEAD">>, IF ok THEN 0 ELSE 128, ok)

\* ----------------------------------------------------------------- requests
PRStr(b) == [isdict |-> FALSE, name |-> b, head_ref |-> "", branch |-> "",
             number |-> 0, base_ref |-> ""]
PRDict(h, b, n, base) == [isdict |-> TRUE, name |-> "", head_ref |-> h,
                          branch |-> b, number |-> n, base_ref |-> base]

Requests == {PRStr("b1"), PRDict("b2", "b2", 2, ""), PRDict("", "", 0, "")}

RECURSIVE SeqsUpTo(_, _)
SeqsUpTo(S, n) ==
    IF n = 0 THEN {<<>>}
    ELSE LET shorter == SeqsUpTo(S, n - 1)
         IN  shorter \cup {Append(q, x) : q \in {r \in shorter : Len(r) = n - 1},
                                          x \in S}

\* process_all_prs, lines 361-367: the branch and number of one list element.
BranchOf(pr) ==
    IF pr.isdict THEN (IF pr.head_ref # "" THEN pr.head_ref ELSE pr.branch)
    ELSE pr.name

NumberOf(pr) == IF pr.isdict THEN pr.number ELSE 0

\* The two-letter codes try_merge looks for, as its tuple at line 168 has them.
UnmergedCodes_NoDD == {"UU", "AA", "AU", "UA", "DU", "UD"}

UnmergedCodes == {"UU", "AA", "DD", "AU", "UA", "DU", "UD"}

\* The characters of the strings that appear in a status listing.
Letters(s) ==
    CASE s = "UU" -> <<"U", "U">> [] s = "AA" -> <<"A", "A">>
      [] s = "DD" -> <<"D", "D">> [] s = "AU" -> <<"A", "U">>
      [] s = "UA" -> <<"U", "A">> [] s = "DU" -> <<"D", "U">>
      [] s = "UD" -> <<"U", "D">> [] s = "M " -> <<"M", " ">>
      [] s = " M" -> <<" ", "M">> [] s = "A " -> <<"A", " ">>
      [] s = "D " -> <<"D", " ">> [] s = "??" -> <<"?", "?">>
      [] s = "f1" -> <<"f", "1">> [] s = "f2" -> <<"f", "2">>
      [] s = "MERGE_CONFLICTS.json" ->
             <<"M", "E", "R", "G", "E", "_", "C", "O", "N", "F", "L", "I",
               "C", "T", "S", ".", "j", "s", "o", "n">>

\* The one element of a set.  A command is run on the repository the command
\* before it left: {Command(x) : x \in {g}} is the one repository after it.
Only(S) == CHOOSE r \in S : TRUE

\* What git status --short writes to its standard output for a listing: per
\* entry the two-letter code, a space, the path and a line feed.
RECURSIVE StatusText(_)
StatusText(lines) ==
    IF lines = <<>> THEN <<>>
    ELSE Letters(Head(lines).xy) \o <<" ">> \o Letters(Head(lines).path)
         \o <<"\n">> \o Only({StatusText(rest) : rest \in {Tail(lines)}})

\* Python's str on a sequence of characters.
Whitespace == {" ", "\n", "\t", "\r"}

RECURSIVE LStrip(_)
LStrip(s) ==
    IF s # <<>> /\ Head(s) \in Whitespace
    THEN Only({LStrip(rest) : rest \in {Tail(s)}}) ELSE s

RECURSIVE RStrip(_)
RStrip(s) ==
    IF s # <<>> /\ s[Len(s)] \in Whitespace
    THEN Only({RStrip(rest) : rest \in {SubSeq(s, 1, Len(s) - 1)}}) ELSE s

\* str.strip()
Strip(s) == Only({RStrip(t) : t \in {Only({LStrip(u) : u \in {s}})}})

\* str.split("\n"): the pieces between line feeds, one piece (the empty one)
\* for the empty string.
RECURSIVE SplitLines(_)
SplitLines(s) ==
    LET feeds == {k \in 1..Len(s) : s[k] = "\n"}
        first == CHOOSE k \in feeds : \A m \in feeds : k <= m
    IN  IF feeds = {} THEN <<s>>
        ELSE <<SubSeq(s, 1, first - 1)>>
             \o Only({SplitLines(rest) :
                        rest \in {SubSeq(s, first + 1, Len(s))}})

\* "".join: the string a sequence of characters spells.
RECURSIVE Join(_)
Join(s) ==
    IF s = <<>> THEN ""
    ELSE Head(s) \o Only({Join(rest) : rest \in {Tail(s)}})

\* line.startswith((...)) with two-letter prefixes.
StartsWith(line, prefixes) ==
    Len(line) >= 2 /\ Join(SubSeq(line, 1, 2)) \in prefixes

\* try_merge, lines 161-170: the loop over the lines of the status output,
\* keeping line[3:].strip() of the lines that start with an unmerged code.
ConflictingFiles(stdout) ==
    Only({[k \in 1..Len(hit) |->
              Join(Strip(SubSeq(hit[k], 4, Len(hit[k]))))] :
          hit \in {SelectSeq(Only({SplitLines(text) :
                                     text \in {Strip(stdout)}}),
                             LAMBDA l : StartsWith(l, UnmergedCodes))}})

\* try_merge, lines 154-180: what it returns once the trial merge has exited
\* with `returncode` and, if that is a failure, git status --short has listed
\* `lines`.
MergeOutcome(returncode, lines) ==
    IF returncode = 0 THEN [success |-> TRUE, conflicts |-> <<>>]
    ELSE [success |-> FALSE,
          conflicts |-> Only({ConflictingFiles(stdout) :
                                stdout \in {StatusText(lines)}})]

\* get_open_prs: the refs of the lines of git branch -r that hold "origin/"
\* and no "->", with "origin/" taken off, but for the three names spelled out
\* at line 119; nothing when the command fails.
SkippedNames_None == {}

SkippedNames == {"main", "master", "HEAD"}

OpenPRs(lines) ==
    LET from == SelectSeq(lines, LAMBDA l : l.remote = "origin" /\ l.to = "")
        kept == SelectSeq(from, LAMBDA l : l.ref \notin SkippedNames)
    IN  [k \in 1..Len(kept) |-> PRStr(kept[k].ref)]

GetOpenPRs(g, ok) ==
    LET g1 == GitBranchRemote(g, ok)
    IN  [g |-> g1,
         value |-> IF g1.rc # 0 THEN <<>> ELSE OpenPRs(BranchRemoteLines(g))]

\* One element of the answer of gh pr list --json.
GhPR(n, head, base) == [number |-> n, headRefName |-> head, baseRefName |-> base]

\* get_github_prs answering with a request of its own when gh is unavailable.
GetGithubPrs_Invented(gh) == IF gh.ok THEN gh.prs ELSE <<GhPR(1, "b1", "main")>>

\* get_github_prs: the answer of gh, or the empty list when gh is missing or
\* exits with an error.
GetGithubPrs(gh) == IF gh.ok THEN gh.prs ELSE <<>>

\* manage_prs.main keeping the current branch: nothing is passed over.
IsCurrent_Never(name, current_branch) == FALSE

\* manage_prs.main, lines 133 and 154: the element is the current branch.
IsCurrent(name, current_branch) == current_branch # "" /\ name = current_branch

\* manage_prs.main, lines 131-139: the requests made from --branches.
BranchRequests(branches, current_branch) ==
    LET kept == SelectSeq(branches, LAMBDA b : ~IsCurrent(b, current_branch))
    IN  [k \in 1..Len(kept) |-> PRDict("", kept[k], 0, "")]

\* manage_prs.main, lines 151-163: the requests made from the answer of gh.
GithubRequests(gh_prs, current_branch) ==
    LET kept == SelectSeq(gh_prs,
                          LAMBDA pr : ~IsCurrent(pr.headRefName, current_branch))
    IN  [k \in 1..Len(kept) |->
            PRDict(kept[k].headRefName, kept[k].headRefName, kept[k].number,
                   kept[k].baseRefName)]

\* -------------------------------------------------------------------- Init
\* The histories a run starts from: the target's own work touches f1; b1
\* touches f1 (conflicting with the target) or f2; b2 touches f2 (conflicting
\* with b1's f2 once b1 is merged) or both files.  In one more history the
\* target's own work touches neither file, b1 touches f1 and b2 touches f2, so
\* that both merge cleanly one after the other.
EditScenarios ==
    {e \in [Sources \cup {T} -> SUBSET Files] :
        \/ /\ e[T] = {"f1"}
           /\ e["b1"] \in {{"f1"}, {"f2"}}
           /\ e["b2"] \in {{"f2"}, {"f1", "f2"}}
        \/ /\ e[T] = {}
           /\ e["b1"] = {"f1"}
           /\ e["b2"] = {"f2"}}

\* The repositories a run starts in: which default branch the remote has (""
\* for none), whether origin/HEAD is set, which source branches exist on the
\* remote, the branch checked out (the only local branch), and the source
\* branches whose conflict branch an earlier run has left on the remote.  A
\* fresh clone on main of such a remote is one of them, with or without the
\* source branch still there.
RepoConfigs ==
    {c \in [d : DefaultNames \cup {OtherDefault, ""}, sym : BOOLEAN,
            exist : {Sources, {"b1"}, {}},
            start : DefaultNames \cup {OtherDefault, "b1"},
            left : {{}, {"b1"}}] :
        \/ /\ c.left = {}
           /\ \/ c.d = "main" /\ c.sym /\ c.start \in {"main", "b1"}
                 /\ c.exist # {}
              \/ c.d = "main" /\ c.sym /\ c.start = "main" /\ c.exist = {}
              \/ c.d = "master" /\ ~c.sym /\ c.start = "master" /\ c.exist # {}
              \/ c.d = OtherDefault /\ c.sym /\ c.start = OtherDefault
                 /\ c.exist = {"b1"}
              \/ c.d = "" /\ ~c.sym /\ c.start = "b1" /\ c.exist # {}
        \/ /\ c.left = {"b1"}
           /\ c.d = "main" /\ c.sym /\ c.start = "main"
           /\ c.exist \in {{"b1"}, {}}}

InitialGit(c) ==
    LET rem == [r \in Refs |->
                   IF r = c.d THEN Commit({T}, FALSE)
                   ELSE IF r \in c.exist THEN Commit({r}, FALSE)
                   ELSE IF \E b \in c.left : r = ConflictBranch(b)
                   THEN Commit({CHOOSE b \in c.left : r = ConflictBranch(b)},
                               FALSE)
                   ELSE Absent]
    IN  [remote |-> rem,
         tracking |-> rem,
         local |-> [r \in Refs |-> IF r = c.start THEN rem[r] ELSE Absent],
         head |-> c.start,
         originHead |-> IF c.sym THEN c.d ELSE "",
         mergeHead |-> Absent,
         staged |-> {},
         unmerged |-> {},
         stagedMeta |-> FALSE,
         metaFile |-> NoFile,
         rc |-> 0,
         log |-> <<>>]

\* The command lines a run starts with.  pr_manager.py takes its requests
\* from a JSON file (any list), from --branches (one name or more) or from the
\* branch scan, with or without --dry-run; manage_prs.py takes them from
\* --branches or from gh, with or without --exclude-current.  A branch is
\* named once after --branches, and gh lists an open request once.
GhPRs == {GhPR(1, "b1", "main"), GhPR(2, "b2", "b1")}
NoGh == [ok |-> FALSE, prs |-> <<>>]
Distinct(q) == \A a, b \in 1..Len(q) : a # b => q[a] # q[b]
BranchLists == {l \in SeqsUpTo(Sources, MaxPRs) : l # <<>> /\ Distinct(l)}
GhLists == {l \in SeqsUpTo(GhPRs, MaxPRs) : Distinct(l)}

Argv(script, mode, pr_data, branches, gh, dry_run, exclude_current) ==
    [script |-> script, mode |-> mode, pr_data |-> pr_data,
     branches |-> branches, gh |-> gh, dry_run |-> dry_run,
     exclude_current |-> exclude_current]

Argvs ==
    {Argv("pr_manager", "pr_data", l, <<>>, NoGh, dry, FALSE) :
        l \in SeqsUpTo(Requests, MaxPRs), dry \in BOOLEAN}
    \cup {Argv("pr_manager", "branches", <<>>, l, NoGh, dry, FALSE) :
        l \in BranchLists, dry \in BOOLEAN}
    \cup {Argv("pr_manager", "scan", <<>>, <<>>, NoGh, dry, FALSE) :
        dry \in BOOLEAN}
    \cup {Argv("manage_prs", "branches", <<>>, l, NoGh, FALSE, ex) :
        l \in BranchLists, ex \in BOOLEAN}
    \cup {Argv("manage_prs", "gh", <<>>, <<>>, [ok |-> TRUE, prs |-> l], FALSE, ex) :
        l \in GhLists, ex \in BOOLEAN}
    \cup {Argv("manage_prs", "gh", <<>>, <<>>, NoGh, FALSE, ex) : ex \in BOOLEAN}

Running == [current_branch |-> "", done |-> FALSE, status |-> 0, out |-> <<>>]

Init ==
    /\ edits \in EditScenarios
    /\ argv \in Argvs
    /\ git \in {InitialGit(c) : c \in RepoConfigs}
    /\ prs = <<>>
    /\ pc = "main"
    /\ i = 0
    /\ target = ""
    /\ branch = ""
    /\ success = FALSE
    /\ conflicts = <<>>
    /\ handled = FALSE
    /\ results = <<>>
    /\ merged_prs = <<>>
    /\ conflict_prs = <<>>
    /\ summary = [printed |-> FALSE, merged |-> <<>>, conflicted |-> <<>>]
    /\ pre = git
    /\ listing = <<>>
    /\ proc = Running

\* ----------------------------------------------------------------- actions
\* The flags of the commands an action did not reach are TRUE, and a run has
\* at most MaxFaults commands failing for an outside reason.
Allowed(oks, used, g) ==
    /\ \A k \in DOMAIN oks : k > used => oks[k]
    /\ Faults(g.log) <= MaxFaults

Ended(status, line) ==
    [proc EXCEPT !.done = TRUE, !.status = status, !.out = Append(@, line)]

DryRunBanner == "DRY RUN MODE - No changes will be made"

\* main going on to process_all_prs whatever --dry-run says.
DryRunAsked_Never(a) == FALSE

\* main, line 453: args.dry_run.
DryRunAsked(a) == a.dry_run

\* pr_manager.main up to its call of process_all_prs: the list of requests
\* from the source the command line names; 1 when the branch scan finds
\* nothing; with --dry-run the banner, the list and 0.
PrManagerMain ==
    /\ pc = "main"
    /\ argv.script = "pr_manager"
    /\ \E ok \in BOOLEAN :
         LET scan == GetOpenPRs(git, ok)
             list == IF argv.mode = "pr_data" THEN argv.pr_data
                     ELSE IF argv.mode = "branches"
                     THEN [k \in 1..Len(argv.branches) |->
                              PRStr(argv.branches[k])]
                     ELSE scan.value
             g1 == IF argv.mode = "scan" THEN scan.g ELSE git
         IN  /\ argv.mode = "scan" \/ ok
             /\ Faults(g1.log) <= MaxFaults
             /\ git' = g1
             /\ prs' = list
             /\ IF argv.mode = "scan" /\ list = <<>>
                THEN /\ pc' = "exit"
                     /\ proc' = Ended(1, "No pull request branches found.")
                ELSE IF DryRunAsked(argv)
                THEN /\ pc' = "exit"
                     /\ proc' = Ended(0, DryRunBanner)
                ELSE /\ pc' = "fetch_all"
                     /\ UNCHANGED proc
    /\ UNCHANGED <<listing, edits, i, target, branch, success, conflicts, handled,
                   results, merged_prs, conflict_prs, summary, pre, argv>>

\* manage_prs.main up to its call of process_all_prs: the current branch when
\* --exclude-current asks for it, the requests from --branches or from gh
\* without the current branch; 1 when gh gives nothing, 0 when nothing is
\* left to process.
ManagePrsMain ==
    /\ pc = "main"
    /\ argv.script = "manage_prs"
    /\ \E ok \in BOOLEAN :
         LET g1 == IF argv.exclude_current THEN GitRevParseHead(git, ok)
                   ELSE git
             current_branch == IF argv.exclude_current /\ g1.rc = 0
                               THEN git.head ELSE ""
             gh_prs == GetGithubPrs(argv.gh)
             list == IF argv.mode = "branches"
                     THEN BranchRequests(argv.branches, current_branch)
                     ELSE GithubRequests(gh_prs, current_branch)
         IN  /\ argv.exclude_current \/ ok
             /\ Faults(g1.log) <= MaxFaults
             /\ git' = g1
             /\ IF argv.mode = "gh" /\ gh_prs = <<>>
                THEN /\ pc' = "exit"
                     /\ prs' = <<>>
                     /\ proc' = [Ended(1, "No PRs found or GitHub API access failed.")
                                   EXCEPT !.current_branch = current_branch]
                ELSE IF list = <<>>
                THEN /\ pc' = "exit"
                     /\ prs' = list
                     /\ proc' = [Ended(0, "No PRs to process.")
                                   EXCEPT !.current_branch = current_branch]
                ELSE /\ pc' = "fetch_all"
                     /\ prs' = list
                     /\ proc' = [proc EXCEPT !.current_branch = current_branch]
    /\ UNCHANGED <<listing, edits, i, target, branch, success, conflicts, handled,
                   results, merged_prs, conflict_prs, summary, pre, argv>>

\* fetch_all (check=True: a failing fetch raises CalledProcessError, which
\* nothing catches).
FetchAll ==
    /\ pc = "fetch_all"
    /\ \E ok \in BOOLEAN :
         LET g1 == GitFetch(git, ok)
         IN  /\ Faults(g1.log) <= MaxFaults
             /\ git' = g1
             /\ pc' = IF g1.rc = 0 THEN "get_default_branch" ELSE "raised"
    /\ UNCHANGED <<listing, edits, prs, i, target, branch, success, conflicts, handled,
                   results, merged_prs, conflict_prs, summary, pre, argv, proc>>

\* get_default_branch
DefaultBranch(g, oks) ==
    LET g1 == GitSymbolicRef(g, oks[1])
        g2 == Only({GitRevParse(x, "main", oks[2]) : x \in {g1}})
        g3 == Only({GitRevParse(x, "master", oks[3]) : x \in {g2}})
    IN  IF g1.rc = 0 THEN [g |-> g1, used |-> 1, value |-> g.originHead]
        ELSE IF g2.rc = 0 THEN [g |-> g2, used |-> 2, value |-> "main"]
        ELSE IF g3.rc = 0 THEN [g |-> g3, used |-> 3, value |-> "master"]
        ELSE [g |-> g3, used |-> 3, value |-> "main"]

GetDefaultBranch ==
    /\ pc = "get_default_branch"
    /\ \E oks \in [1..3 -> BOOLEAN] :
         LET r == DefaultBranch(git, oks)
         IN  /\ Allowed(oks, r.used, r.g)
             /\ git' = r.g
             /\ target' = r.value
    /\ pc' = "loop"
    /\ UNCHANGED <<listing, edits, prs, i, branch, success, conflicts, handled,
                   results, merged_prs, conflict_prs, summary, pre, argv, proc>>

\* process_all_prs, lines 358-370: take the next list element; an element
\* without a branch is passed over.
NextPR ==
    /\ pc = "loop"
    /\ i < Len(prs)
    /\ i' = i + 1
    /\ branch' = BranchOf(prs[i + 1])
    /\ pc' = IF BranchOf(prs[i + 1]) # "" THEN "try_merge" ELSE "loop"
    /\ pre' = git
    /\ UNCHANGED <<listing, edits, git, prs, target, success, conflicts, handled,
                   results, merged_prs, conflict_prs, summary, argv, proc>>

\* try_merge
TryMergeResult(g, b, t, oks) ==
    LET g1 == GitCheckout(g, t, oks[1])
        g2 == Only({GitPull(x, t, oks[2]) : x \in {g1}})
        g3 == Only({GitMerge(x, b, TRUE, TRUE, oks[3]) : x \in {g2}})
        g4 == Only({GitStatus(x, oks[4]) : x \in {g3}})
        lines == StatusShort(g3)
        out == Only({MergeOutcome(x.rc, l) : x \in {g3}, l \in {lines}})
        g5 == Only({GitMergeAbort(x, oks[5]) : x \in {g4}})
    IN  IF g1.rc # 0
        THEN [g |-> g1, used |-> 1, raised |-> FALSE, success |-> FALSE,
              conflicts |-> <<>>, listed |-> FALSE,
              lines |-> <<>>]
        ELSE IF g3.rc = 0
        THEN [g |-> g3, used |-> 3, raised |-> FALSE, success |-> out.success,
              conflicts |-> out.conflicts, listed |-> FALSE,
              lines |-> <<>>]
        ELSE IF g4.rc # 0
        THEN [g |-> g4, used |-> 4, raised |-> TRUE, success |-> FALSE,
              conflicts |-> <<>>, listed |-> FALSE,
              lines |-> <<>>]
        ELSE [g |-> g5, used |-> 5, raised |-> FALSE, success |-> out.success,
              conflicts |-> out.conflicts, listed |-> TRUE, lines |-> lines]

TryMerge ==
    /\ pc = "try_merge"
    /\ \E oks \in [1..5 -> BOOLEAN] :
         LET r == TryMergeResult(git, branch, target, oks)
         IN  /\ Allowed(oks, r.used, r.g)
             /\ git' = r.g
             /\ success' = r.success
             /\ conflicts' = r.conflicts
             /\ listing' = IF r.listed THEN r.lines ELSE listing
             /\ pc' = IF r.raised THEN "raised" ELSE "try_merge_returned"
    /\ UNCHANGED <<edits, prs, i, target, branch, handled, results,
                   merged_prs, conflict_prs, summary, pre, argv, proc>>

\* The dictionary process_pr builds at lines 300-306, with its status.
Returned(r) == [req |-> i, value |-> r]

Result(status) ==
    [branch |-> branch, target |-> target, pr_number |-> NumberOf(prs[i]),
     success |-> success, conflicts |-> conflicts, status |-> status]

\* process_pr handing a request without success and without conflicts to
\* create_conflict_branch.
ProcessPRDispatch_ConflictOnFailed ==
    /\ pc = "try_merge_returned"
    /\ pc' = IF success THEN "complete_merge" ELSE "create_conflict_branch"
    /\ pre' = git
    /\ UNCHANGED <<listing, edits, git, prs, i, target, branch, success, conflicts,
                   handled, results, merged_prs, conflict_prs, summary, argv,
                   proc>>

\* process_pr, lines 308-334: choose the handler from try_merge's result; with
\* no success and no conflicts the request is failed at once.
ProcessPRDispatch ==
    /\ pc = "try_merge_returned"
    /\ IF success THEN pc' = "complete_merge" /\ UNCHANGED results
       ELSE IF conflicts # <<>>
            THEN pc' = "create_conflict_branch" /\ UNCHANGED results
            ELSE pc' = "loop" /\ results' = Append(results, Returned(Result("failed")))
    /\ pre' = git
    /\ UNCHANGED <<listing, edits, git, prs, i, target, branch, success, conflicts,
                   handled, merged_prs, conflict_prs, summary, argv, proc>>

\* complete_merge
MergeMsg(b, t) == "Merge branch '" \o b \o "' into " \o t

\* complete_merge deleting the source branch before it pushes the target.
CompleteMergeResult_DeleteFirst(g, b, t, oks) ==
    LET g1 == GitCommit(g, MergeMsg(b, t), oks[1])
        g2 == Only({GitPush(x, {"--delete"}, b, oks[2]) : x \in {g1}})
        g3 == Only({GitPush(x, {}, t, oks[3]) : x \in {g2}})
    IN  IF g1.rc # 0 THEN [g |-> g1, used |-> 1, value |-> FALSE]
        ELSE IF g3.rc # 0 THEN [g |-> g3, used |-> 3, value |-> FALSE]
        ELSE [g |-> g3, used |-> 3, value |-> TRUE]

CompleteMergeResult(g, b, t, oks) ==
    LET g1 == GitCommit(g, MergeMsg(b, t), oks[1])
        g2 == Only({GitPush(x, {}, t, oks[2]) : x \in {g1}})
        g3 == Only({GitPush(x, {"--delete"}, b, oks[3]) : x \in {g2}})
    IN  IF g1.rc # 0 THEN [g |-> g1, used |-> 1, value |-> FALSE]
        ELSE IF g2.rc # 0 THEN [g |-> g2, used |-> 2, value |-> FALSE]
        ELSE [g |-> g3, used |-> 3, value |-> TRUE]

CompleteMerge ==
    /\ pc = "complete_merge"
    /\ \E oks \in [1..3 -> BOOLEAN] :
         LET r == CompleteMergeResult(git, branch, target, oks)
         IN  /\ Allowed(oks, r.used, r.g)
             /\ git' = r.g
             /\ handled' = r.value
    /\ pc' = "complete_merge_returned"
    /\ UNCHANGED <<listing, edits, prs, i, target, branch, success, conflicts, results,
                   merged_prs, conflict_prs, summary, pre, argv, proc>>

\* create_conflict_branch
WriteConflictFile(g, b, t, files) ==
    [g EXCEPT !.metaFile = [present |-> TRUE, source_branch |-> b,
                            target_branch |-> t, conflicting_files |-> files]]

\* create_conflict_branch pushing the target instead of the conflict branch.
CreateConflictBranchResult_PushTarget(g, b, t, files, oks) ==
    LET conflict_branch == ConflictBranch(b)
        g1 == GitCheckoutNew(g, conflict_branch, b, oks[1])
        g2 == Only({GitMerge(x, t, FALSE, FALSE, oks[2]) : x \in {g1}})
        g3 == Only({GitAdd(WriteConflictFile(x, b, t, files), oks[3]) :
                      x \in {g2}})
        g4 == Only({GitPush(x, {}, t, oks[4]) : x \in {g3}})
        g5 == Only({GitCheckout(x, t, oks[5]) : x \in {g4}})
    IN  IF g1.rc # 0 THEN [g |-> g1, used |-> 1, value |-> FALSE]
        ELSE IF g4.rc # 0 THEN [g |-> g4, used |-> 4, value |-> FALSE]
        ELSE [g |-> g5, used |-> 5, value |-> TRUE]

CreateConflictBranchResult(g, b, t, files, oks) ==
    LET conflict_branch == ConflictBranch(b)
        g1 == GitCheckoutNew(g, conflict_branch, b, oks[1])
        g2 == Only({GitMerge(x, t, FALSE, FALSE, oks[2]) : x \in {g1}})
        g3 == Only({GitAdd(WriteConflictFile(x, b, t, files), oks[3]) :
                      x \in {g2}})
        g4 == Only({GitPush(x, {}, conflict_branch, oks[4]) : x \in {g3}})
        g5 == Only({GitCheckout(x, t, oks[5]) : x \in {g4}})
    IN  IF g1.rc # 0 THEN [g |-> g1, used |-> 1, value |-> FALSE]
        ELSE IF g4.rc # 0 THEN [g |-> g4, used |-> 4, value |-> FALSE]
        ELSE [g |-> g5, used |-> 5, value |-> TRUE]

CreateConflictBranch ==
    /\ pc = "create_conflict_branch"
    /\ \E oks \in [1..5 -> BOOLEAN] :
         LET r == CreateConflictBranchResult(git, branch, target, conflicts, oks)
         IN  /\ Allowed(oks, r.used, r.g)
             /\ git' = r.g
             /\ handled' = r.value
    /\ pc' = "create_conflict_branch_returned"
    /\ UNCHANGED <<listing, edits, prs, i, target, branch, success, conflicts, results,
                   merged_prs, conflict_prs, summary, pre, argv, proc>>

\* process_pr, lines 310-331: the status and the accumulators, from what the
\* handler returned.
ProcessPRFinish ==
    /\ pc \in {"complete_merge_returned", "create_conflict_branch_returned"}
    /\ LET status == IF pc = "complete_merge_returned"
                     THEN (IF handled THEN "merged" ELSE "merged_with_warnings")
                     ELSE (IF handled THEN "conflicts" ELSE "failed")
       IN  /\ results' = Append(results, Returned(Result(status)))
           /\ merged_prs' = IF status = "merged"
                            THEN Append(merged_prs, Result(status))
                            ELSE merged_prs
           /\ conflict_prs' = IF status = "conflicts"
                              THEN Append(conflict_prs, Result(status))
                              ELSE conflict_prs
    /\ pc' = "loop"
    /\ UNCHANGED <<listing, edits, git, prs, i, target, branch, success, conflicts,
                   handled, summary, pre, argv, proc>>

\* print_summary, called when the loop of process_all_prs is over.
PrintSummary ==
    /\ pc = "loop"
    /\ i = Len(prs)
    /\ summary' = [printed |-> TRUE,
                   merged |-> [k \in 1..Len(merged_prs) |-> merged_prs[k].branch],
                   conflicted |-> [k \in 1..Len(conflict_prs) |->
                       [branch |-> conflict_prs[k].branch,
                        conflicts |-> conflict_prs[k].conflicts,
                        conflict_branch |->
                            "conflicts/" \o conflict_prs[k].branch]]]
    /\ pc' = "done"
    /\ UNCHANGED <<listing, edits, git, prs, i, target, branch, success, conflicts,
                   handled, results, merged_prs, conflict_prs, pre, argv, proc>>

\* main returns 0 once process_all_prs has returned.
MainReturn ==
    /\ pc = "done"
    /\ pc' = "exit"
    /\ proc' = [proc EXCEPT !.done = TRUE, !.status = 0]
    /\ UNCHANGED <<listing, edits, git, prs, i, target, branch, success, conflicts,
                   handled, results, merged_prs, conflict_prs, summary, pre,
                   argv>>

\* CalledProcessError raised by run_git is caught nowhere: the interpreter
\* prints the traceback and the process ends with status 1.
Uncaught ==
    /\ pc = "raised"
    /\ pc' = "exit"
    /\ proc' = Ended(1, "Traceback (most recent call last):")
    /\ UNCHANGED <<listing, edits, git, prs, i, target, branch, success, conflicts,
                   handled, results, merged_prs, conflict_prs, summary, pre,
                   argv>>

\* The steps of process_all_prs and the end of the process.
RunNext ==
    \/ FetchAll
    \/ GetDefaultBranch
    \/ NextPR
    \/ TryMerge
    \/ ProcessPRDispatch
    \/ CompleteMerge
    \/ CreateConflictBranch
    \/ ProcessPRFinish
    \/ PrintSummary
    \/ MainReturn
    \/ Uncaught

Next ==
    \/ PrManagerMain
    \/ ManagePrsMain
    \/ RunNext

Spec == Init /\ [][Next]_vars

\* pr_manager.main has read its list of requests from a JSON file and calls
\* process_all_prs, in a clone of a remote that has main and both source
\* branches, main being checked out.
RunInit ==
    /\ edits \in EditScenarios
    /\ argv \in {a \in Argvs : a.script = "pr_manager" /\ a.mode = "pr_data"
                               /\ ~a.dry_run}
    /\ git = InitialGit([d |-> "main", sym |-> TRUE, exist |-> Sources,
                         start |-> "main", left |-> {}])
    /\ prs = argv.pr_data
    /\ pc = "fetch_all"
    /\ i = 0
    /\ target = ""
    /\ branch = ""
    /\ success = FALSE
    /\ conflicts = <<>>
    /\ handled = FALSE
    /\ results = <<>>
    /\ merged_prs = <<>>
    /\ conflict_prs = <<>>
    /\ summary = [printed |-> FALSE, merged |-> <<>>, conflicted |-> <<>>]
    /\ pre = git
    /\ listing = <<>>
    /\ proc = Running

\* The steps of a run follow one another without waiting on anything: a run
\* that can take a step takes it.
FairSpec == RunInit /\ [][RunNext]_vars /\ WF_vars(RunNext)

\* ------------------------------------------------- try_merge called twice
\* try_merge applied two times in a row to one source and one target, in a
\* repository as fetch_all leaves it, nothing else happening in between.
RetryInit ==
    /\ edits \in EditScenarios
    /\ git \in {InitialGit(c) : c \in RepoConfigs}
    /\ branch \in Sources
    /\ target \in DefaultNames
    /\ argv = Argv("pr_manager", "branches", <<>>, <<branch>>, NoGh, FALSE, FALSE)
    /\ prs = <<PRStr(branch)>>
    /\ pc = "try_merge_1"
    /\ i = 1
    /\ success = FALSE
    /\ conflicts = <<>>
    /\ handled = FALSE
    /\ results = <<>>
    /\ merged_prs = <<>>
    /\ conflict_prs = <<>>
    /\ summary = [printed |-> FALSE, merged |-> <<>>, conflicted |-> <<>>]
    /\ pre = git
    /\ listing = <<>>
    /\ proc = Running

TryMergeOnce ==
    /\ pc \in {"try_merge_1", "try_merge_2"}
    /\ \E oks \in [1..5 -> BOOLEAN] :
         LET r == TryMergeResult(git, branch, target, oks)
         IN  /\ Allowed(oks, r.used, r.g)
             /\ git' = r.g
             /\ success' = r.success
             /\ conflicts' = r.conflicts
             /\ results' = IF r.raised THEN results
                           ELSE Append(results,
                                       Returned([success |-> r.success,
                                                 conflicts |-> r.conflicts]))
             /\ pc' = IF r.raised THEN "raised"
                      ELSE IF pc = "try_merge_1" THEN "try_merge_2"
                      ELSE "try_merge_twice_returned"
             /\ listing' = IF r.listed THEN r.lines ELSE listing
    /\ UNCHANGED <<edits, prs, i, target, branch, handled, merged_prs,
                   conflict_prs, summary, pre, argv, proc>>

RetryNext == TryMergeOnce

RetrySpec == RetryInit /\ [][RetryNext]_vars

\* ------------------------------------------- try_merge after the trial merge
\* The part of try_merge that follows the trial merge, on its own: the merge
\* has exited with some status and, if that is a failure, git status --short
\* lists some entries.  Git lists a path once, tracked paths in path order and
\* untracked paths after them, each with any of the codes it has.
StatusCodes ==
    {"UU", "AA", "DD", "AU", "UA", "DU", "UD", "M ", " M", "A ", "D ", "??"}

NotListed == "-"

ListingOf(code) ==
    LET line == [k \in 1..Len(FileOrder) |->
                    [xy |-> code[FileOrder[k]], path |-> FileOrder[k]]]
        tracked == SelectSeq(line, LAMBDA l : l.xy \notin {NotListed, "??"})
        untracked == SelectSeq(line, LAMBDA l : l.xy = "??")
    IN  tracked \o untracked

Listings == {ListingOf(code) : code \in [Files -> StatusCodes \cup {NotListed}]}

\* Exit statuses of git merge: 0, 1 on conflicts, 2 when local changes would
\* be overwritten, 128 on a fatal error.
MergeExits == {0, 1, 2, 128}

StatusInit ==
    /\ edits \in EditScenarios
    /\ \E rc \in MergeExits :
         /\ git = [InitialGit([d |-> "main", sym |-> TRUE, exist |-> Sources,
                               start |-> "main", left |-> {}]) EXCEPT !.rc = rc]
         /\ listing \in IF rc = 0 THEN {<<>>} ELSE Listings
    /\ branch \in Sources
    /\ target = "main"
    /\ argv = Argv("pr_manager", "branches", <<>>, <<branch>>, NoGh, FALSE, FALSE)
    /\ prs = <<PRStr(branch)>>
    /\ pc = "merge_exited"
    /\ i = 1
    /\ success = FALSE
    /\ conflicts = <<>>
    /\ handled = FALSE
    /\ results = <<>>
    /\ merged_prs = <<>>
    /\ conflict_prs = <<>>
    /\ summary = [printed |-> FALSE, merged |-> <<>>, conflicted |-> <<>>]
    /\ pre = git
    /\ proc = Running

\* try_merge, lines 154-180, without the commands it issues.
ClassifyMerge ==
    /\ pc = "merge_exited"
    /\ LET out == MergeOutcome(git.rc, listing)
       IN  /\ success' = out.success
           /\ conflicts' = out.conflicts
    /\ pc' = "merge_classified"
    /\ UNCHANGED <<listing, edits, git, prs, i, target, branch, handled,
                   results, merged_prs, conflict_prs, summary, pre, argv, proc>>

StatusNext == ClassifyMerge

StatusSpec == StatusInit /\ [][StatusNext]_vars

\* ------------------------------------------------------------------ claims
Log == git.log
LogIndex == 1..Len(git.log)

IsPush(e) == e.args[1] = "push"
IsDelete(e) == IsPush(e) /\ Len(e.args) = 4 /\ e.args[3] = "--delete"
IsPushOf(e, name) == e.args = <<"push", "origin", name>>
IsCommit(e) == e.args[1] = "commit"
ForceFlags == {"--force", "-f", "--force-with-lease"}

\* C1: when create_conflict_branch returns, with either result, the tip of the
\* target branch is what it was when the function was entered, both in the
\* local repository and on the remote.
C1_ConflictStepLeavesTarget ==
    pc = "create_conflict_branch_returned" =>
        /\ git.local[target] = pre.local[target]
        /\ git.remote[target] = pre.remote[target]

\* C1 witness: create_conflict_branch has returned True after pushing the
\* conflict branch, from a repository whose local target was ahead of the
\* remote target.
C1_Witness ==
    /\ pc = "create_conflict_branch_returned"
    /\ handled
    /\ git.remote[ConflictBranch(branch)].ok
    /\ git.local[target] # git.remote[target]

\* C2: no push the program has issued (of the target, of a deletion, of a
\* conflict branch) carries a force flag.
C2_NoForcePush ==
    \A k \in LogIndex :
        IsPush(Log[k]) =>
            \A j \in 1..Len(Log[k].args) : Log[k].args[j] \notin ForceFlags

\* C2 witness: one run has pushed the target, deleted a source branch and
\* pushed a conflict branch.
C2_Witness ==
    /\ \E k \in LogIndex : IsPushOf(Log[k], target) /\ Log[k].rc = 0
    /\ \E k \in LogIndex : IsDelete(Log[k]) /\ Log[k].rc = 0
    /\ \E k \in LogIndex, s \in Sources :
          IsPushOf(Log[k], ConflictBranch(s)) /\ Log[k].rc = 0

\* C3: a deletion of a remote source branch is issued only after, within the
\* same request, the merge commit was created and the push of the target
\* succeeded; a request that ended "conflicts" or "failed" issued no deletion.
C3_DeleteOnlyAfterPublishedMerge ==
    /\ \A d \in LogIndex :
          IsDelete(Log[d]) =>
              \E c \in 1..d, p \in 1..d :
                  /\ c < p /\ p < d
                  /\ Log[c].req = Log[d].req /\ Log[p].req = Log[d].req
                  /\ IsCommit(Log[c]) /\ Log[c].rc = 0
                  /\ IsPushOf(Log[p], target) /\ Log[p].rc = 0
    /\ \A k \in 1..Len(results) :
          results[k].value.status \in {"conflicts", "failed"} =>
              ~\E d \in LogIndex : IsDelete(Log[d]) /\ Log[d].req = results[k].req

\* C3 witness: a source branch has been deleted from the remote by a request
\* that ended "merged".
C3_Witness ==
    \E d \in LogIndex, k \in 1..Len(results) :
        /\ IsDelete(Log[d]) /\ Log[d].rc = 0
        /\ results[k].req = Log[d].req
        /\ results[k].value.status = "merged"
        /\ ~git.remote[results[k].value.branch].ok

InRequest(e, r) == e.req = r.req
IsTrialMerge(e) == e.args[1] = "merge" /\ e.args[2] = "--no-commit"
IsAbort(e) == e.args = <<"merge", "--abort">>

\* C4: a request has status "merged" only if the deletion of its remote source
\* branch succeeded; when the push of the target succeeded and the deletion
\* failed, the status is "merged_with_warnings".
C4_MergedOnlyIfDeleted ==
    \A k \in 1..Len(results) :
        LET r == results[k]
        IN  /\ r.value.status = "merged" =>
                  \E d \in LogIndex :
                      IsDelete(Log[d]) /\ InRequest(Log[d], r) /\ Log[d].rc = 0
            /\ (\E d \in LogIndex :
                    IsDelete(Log[d]) /\ InRequest(Log[d], r) /\ Log[d].rc # 0)
                  => r.value.status = "merged_with_warnings"

\* C5: a request whose push of the target failed has status "failed", and no
\* deletion of its source branch was issued.
C5_PushFailureIsFailed ==
    \A k \in 1..Len(results) :
        LET r == results[k]
        IN  (\E p \in LogIndex :
                 IsPushOf(Log[p], target) /\ InRequest(Log[p], r) /\ Log[p].rc # 0)
            => /\ r.value.status = "failed"
               /\ ~\E d \in LogIndex : IsDelete(Log[d]) /\ InRequest(Log[d], r)

\* C6: when complete_merge has returned, with either result, no merge is left
\* staged and uncommitted; and every push of the target comes after a
\* successful commit of the same request.
C6_NoStagedMergeAfterFinalize ==
    /\ pc = "complete_merge_returned" => (~git.mergeHead.ok /\ git.staged = {})
    /\ \A p \in LogIndex :
          IsPushOf(Log[p], target) =>
              \E c \in 1..p : c < p /\ IsCommit(Log[c]) /\ Log[c].rc = 0
                              /\ Log[c].req = Log[p].req

\* C7: when try_merge has returned without success, no merge is in progress
\* and the index holds no unmerged path; and every trial merge that reported
\* failure is followed, in the same request, by git merge --abort.
C7_NonCleanRestoresTree ==
    /\ (pc = "try_merge_returned" /\ ~success) =>
          (~git.mergeHead.ok /\ git.unmerged = {})
    /\ \A m \in LogIndex :
          (IsTrialMerge(Log[m]) /\ Log[m].rc # 0) =>
              \E a \in LogIndex : a > m /\ IsAbort(Log[a])
                                  /\ Log[a].req = Log[m].req

\* C8: for every request that ended "conflicts", the conflict branch on the
\* remote holds MERGE_CONFLICTS.json in a commit of its own: it is not the tip
\* of the source branch.
C8_ConflictBranchHoldsMetadata ==
    \A k \in 1..Len(results) :
        LET r == results[k].value
            pushed == git.remote[ConflictBranch(r.branch)]
        IN  r.status = "conflicts" =>
                /\ pushed.ok
                /\ pushed.meta
                /\ pushed # Commit({r.branch}, FALSE)

\* C9: at the end of a run the merged and the conflicted lists share no
\* branch, and the merged, conflicted and failed requests add up to the
\* requests processed.
NumberFailed ==
    Cardinality({k \in 1..Len(results) : results[k].value.status = "failed"})

C9_Disjoint ==
    {merged_prs[k].branch : k \in 1..Len(merged_prs)}
        \cap {conflict_prs[k].branch : k \in 1..Len(conflict_prs)} = {}

C9_SummaryPartition ==
    pc = "done" =>
        /\ C9_Disjoint
        /\ Len(merged_prs) + Len(conflict_prs) + NumberFailed = Len(results)

\* C10: a run of process_all_prs that has started goes through every request
\* of the list and prints the summary, whichever commands fail.
C10_RunReachesSummary ==
    (pc = "fetch_all") ~> (summary.printed /\ i = Len(prs))

IsCreate(e) == Len(e.args) >= 2 /\ e.args[1] = "checkout" /\ e.args[2] = "-b"
ReturnedFailed(r) == ~r.value.success /\ r.value.conflicts = <<>>

\* C11: a request whose merge attempt returned no success and no conflicts
\* ends "failed" at once: none of the commands of that request is a commit, a
\* push or the creation of a branch, and the repository is what the merge
\* attempt left.
C11_FailedIssuesNothingMore ==
    /\ \A k \in 1..Len(results) :
          ReturnedFailed(results[k]) =>
              /\ results[k].value.status = "failed"
              /\ \A e \in LogIndex :
                    Log[e].req = results[k].req =>
                        ~IsCommit(Log[e]) /\ ~IsPush(Log[e]) /\ ~IsCreate(Log[e])
    /\ (/\ pc = "loop"
        /\ results # <<>>
        /\ results[Len(results)].req = i
        /\ ReturnedFailed(results[Len(results)])) => git = pre

\* C11 witness: a request has ended "failed" after the checkout of the target
\* failed, and a request before it had been merged and pushed.
C11_Witness ==
    /\ pc = "loop"
    /\ Len(results) = 2
    /\ results[1].value.status = "merged"
    /\ ReturnedFailed(results[2])
    /\ \E e \in LogIndex : /\ Log[e].req = results[2].req
                            /\ Log[e].args = <<"checkout", target>>
                            /\ Log[e].rc # 0

\* Clean, Conflicted or Failed, with the set of conflicting paths.
Classification(r) ==
    [kind |-> IF r.success THEN "Clean"
              ELSE IF r.conflicts # <<>> THEN "Conflicted" ELSE "Failed",
     paths |-> {r.conflicts[k] : k \in 1..Len(r.conflicts)}]

\* C12: when try_merge has returned twice in a row for the same source and
\* target, no command having failed for an outside reason and the remote
\* being what it was, both returns have the same classification and the same
\* set of conflicting paths.
C12_SameClassificationTwice ==
    (/\ pc = "try_merge_twice_returned"
     /\ Faults(git.log) = 0
     /\ git.remote = pre.remote) =>
        Classification(results[1].value) = Classification(results[2].value)

HasResult(r) == \E k \in 1..Len(results) : results[k].req = r

\* Requests are taken one at a time in list order: results come in the order
\* of the list, one for a request at most; the commands of a request come
\* after those of the requests before it; every request before the current
\* one that names a branch has its result; and no command that failed is
\* issued again for the same request.
OneAtATimeInOrder ==
    /\ \A j, k \in 1..Len(results) : j < k => results[j].req < results[k].req
    /\ \A a, b \in LogIndex : a < b => Log[a].req <= Log[b].req
    /\ \A r \in 1..Len(prs) :
          (r < i /\ BranchOf(prs[r]) # "") => HasResult(r)
    /\ \A a, b \in LogIndex :
          (a < b /\ Log[a].req = Log[b].req /\ Log[a].rc # 0) =>
              Log[a].args # Log[b].args

\* C13: once process_all_prs has started, the run comes to a point where
\* every request of the list that names a branch has its result, the
\* requests having been processed one at a time in list order and no failed
\* command having been issued a second time.
C13_EachRequestOnceInOrder ==
    (pc = "fetch_all") ~>
        (/\ OneAtATimeInOrder
         /\ \A r \in 1..Len(prs) : BranchOf(prs[r]) # "" => HasResult(r))

\* No work could be determined: the branch scan or the hosting platform gave
\* no request, and no branch was named on the command line.
NoWork ==
    \/ argv.script = "pr_manager" /\ argv.mode = "scan" /\ prs = <<>>
    \/ argv.script = "manage_prs" /\ argv.mode = "gh"
       /\ (~argv.gh.ok \/ argv.gh.prs = <<>>)

\* C14: when the process has ended, its exit status is other than 0 exactly
\* when no work could be determined, and in that case no request was
\* processed, no command of process_all_prs was issued and no summary was
\* printed.
C14_ExitStatus ==
    proc.done =>
        /\ (proc.status # 0) <=> NoWork
        /\ NoWork => /\ results = <<>>
                     /\ ~summary.printed
                     /\ \A e \in LogIndex : Log[e].args[1] \notin
                            {"fetch", "checkout", "pull", "merge", "commit",
                             "push"}

\* The repository but for the command log and the last exit status.
Repository(g) == [g EXCEPT !.log = <<>>, !.rc = 0]

\* C15: in a run with --dry-run, whichever the source of the requests, the
\* only command ever issued is the listing git branch -r, nothing is
\* processed, and the repository, local and remote, stays what it was when
\* the process started.
C15_DryRunChangesNothing ==
    argv.dry_run =>
        /\ \A e \in LogIndex : Log[e].args = <<"branch", "-r">>
        /\ Repository(git) = Repository(pre)
        /\ results = <<>>
        /\ pc \in {"main", "exit"}

\* C15 witness: a dry run over the branch scan has ended after listing two
\* branches it would have processed.
C15_Witness ==
    /\ argv.dry_run
    /\ argv.mode = "scan"
    /\ proc.done
    /\ Len(prs) = 2
    /\ Len(Log) = 1

DryRunAlone ==
    argv.script = "pr_manager" /\ argv.mode = "scan" /\ argv.dry_run

BannerPrinted == \E k \in 1..Len(proc.out) : proc.out[k] = DryRunBanner

\* The listing git branch -r succeeded and showed a branch that is neither
\* main nor master.
ScanFindsBranch ==
    /\ Log # <<>>
    /\ Log[1].args = <<"branch", "-r">>
    /\ Log[1].rc = 0
    /\ \E r \in Refs \ {"main", "master"} : pre.tracking[r].ok

CurrentKnown ==
    /\ argv.script = "manage_prs"
    /\ argv.exclude_current
    /\ Log # <<>>
    /\ Log[1].args = <<"rev-parse", "--abbrev-ref", "HEAD">>
    /\ Log[1].rc = 0

\* C17: when exclusion of the current branch is asked for and the current
\* branch is known, it is the branch that was checked out when the process
\* started, no request handed to process_all_prs has it as its source, and
\* no result is about it, whether the requests come from --branches or from
\* gh.
C17_CurrentBranchExcluded ==
    CurrentKnown =>
        /\ pc = "fetch_all" => proc.current_branch = pre.head
        /\ \A k \in 1..Len(prs) : BranchOf(prs[k]) # proc.current_branch
        /\ \A k \in 1..Len(results) :
              results[k].value.branch # proc.current_branch

\* C17 witness: gh listed the requests of b1 and b2 while b1 was checked out;
\* b1 was left out and b2 has been processed.
C17_Witness ==
    /\ CurrentKnown
    /\ argv.mode = "gh"
    /\ Len(argv.gh.prs) = 2
    /\ proc.current_branch = "b1"
    /\ Len(prs) = 1
    /\ Len(results) = 1
    /\ results[1].value.branch = "b2"

GhUnavailable == argv.script = "manage_prs" /\ argv.mode = "gh" /\ ~argv.gh.ok

\* C18: when gh is missing or exits with an error, main of manage_prs ends
\* with status 1 after its "No PRs found" message, without a traceback: no
\* list is handed to process_all_prs, nothing is fetched, merged or pushed,
\* and no request gets a result.
C18_GhUnavailableIsNoWork ==
    (GhUnavailable /\ pc # "main") =>
        /\ pc = "exit"
        /\ proc.done
        /\ proc.status = 1
        /\ proc.out = <<"No PRs found or GitHub API access failed.">>
        /\ prs = <<>>
        /\ results = <<>>
        /\ ~summary.printed
        /\ \A e \in LogIndex :
              Log[e].args = <<"rev-parse", "--abbrev-ref", "HEAD">>

\* C18 witness: gh was unavailable in a run with --exclude-current; the
\* current branch was found and the process has ended.
C18_Witness ==
    /\ GhUnavailable
    /\ proc.done
    /\ proc.status = 1
    /\ proc.current_branch = "b1"
    /\ Len(Log) = 1

\* The commands of request r that create a branch.
Creations(r) == {e \in LogIndex : Log[e].req = r /\ IsCreate(Log[e])}

\* C19: every branch the program creates for a source branch b is named
\* "conflicts/" followed by b, whatever the request and however often b is
\* asked for; a request that ended "conflicts" has pushed the branch of that
\* name, and the summary reports that name for b.
C19_ConflictBranchName ==
    /\ \A e \in LogIndex :
          IsCreate(Log[e]) =>
              \E b \in Refs :
                  Log[e].args = <<"checkout", "-b", "conflicts/" \o b,
                                  "origin/" \o b>>
    /\ \A k \in 1..Len(results) :
          LET b == results[k].value.branch
          IN  /\ \A e \in Creations(results[k].req) :
                    Log[e].args = <<"checkout", "-b", "conflicts/" \o b,
                                    "origin/" \o b>>
              /\ results[k].value.status = "conflicts" =>
                    /\ Creations(results[k].req) # {}
                    /\ \E e \in LogIndex :
                          /\ Log[e].req = results[k].req
                          /\ IsPushOf(Log[e], "conflicts/" \o b)
                          /\ Log[e].rc = 0
    /\ summary.printed =>
          \A k \in 1..Len(summary.conflicted) :
              /\ summary.conflicted[k].conflict_branch =
                     "conflicts/" \o summary.conflicted[k].branch
              /\ git.remote[summary.conflicted[k].conflict_branch].ok

\* C19 witness: b1 has been merged, the request of b2 ended "conflicts", and
\* the summary has been printed with the conflict branch of b2, which is on
\* the remote.
C19_Witness ==
    /\ summary.printed
    /\ Len(summary.merged) = 1
    /\ Len(summary.conflicted) = 1
    /\ summary.conflicted[1].branch = "b2"
    /\ summary.conflicted[1].conflict_branch = "conflicts/b2"
    /\ git.remote["conflicts/b2"].ok

Scanned == {BranchOf(prs[k]) : k \in 1..Len(prs)}

\* C20: in a run over the branch scan where no command failed for an outside
\* reason, once the default branch is detected: the detected default branch
\* is not among the branches the scan returned, every other remote branch
\* is, and nothing else is.
C20_ScanReturnsNonDefaultBranches ==
    (/\ argv.script = "pr_manager"
     /\ argv.mode = "scan"
     /\ pc = "loop"
     /\ i = 0
     /\ Faults(Log) = 0) =>
        /\ target \notin Scanned
        /\ \A r \in Refs : (pre.tracking[r].ok /\ r # target) => r \in Scanned
        /\ \A r \in Scanned : r \in Refs /\ pre.tracking[r].ok

\* The paths of the entries of a status listing whose code is one of the seven
\* unmerged codes, in the order of the listing.
UnmergedPaths(lines) ==
    LET hit == SelectSeq(lines, LAMBDA l :
                   l.xy \in {"UU", "AA", "DD", "AU", "UA", "DU", "UD"})
    IN  [k \in 1..Len(hit) |-> hit[k].path]

\* C21: when the trial merge has failed, try_merge returns no success and, as
\* conflicting paths, exactly the paths git status listed with one of the codes
\* UU, AA, DD, AU, UA, DU, UD, in the order of the listing, so that the result
\* is Conflicted iff one such path was listed and Failed otherwise; when the
\* trial merge has succeeded it returns success with no path.
C21_ConflictsAreUnmergedPaths ==
    pc = "merge_classified" =>
        LET r == [success |-> success, conflicts |-> conflicts]
        IN  /\ git.rc # 0 =>
                 /\ conflicts = UnmergedPaths(listing)
                 /\ Classification(r).kind =
                        IF UnmergedPaths(listing) # <<>> THEN "Conflicted"
                        ELSE "Failed"
            /\ git.rc = 0 => Classification(r).kind = "Clean"
            /\ Classification(r).kind = "Clean" => conflicts = <<>>

\* A failed merge after which both paths are listed unmerged, with different
\* codes, and are returned in that order.
C21_Witness ==
    /\ pc = "merge_classified"
    /\ git.rc = 1
    /\ listing = <<[xy |-> "AU", path |-> "f1"], [xy |-> "DD", path |-> "f2"]>>
    /\ conflicts = <<"f1", "f2">>


\* The target a request carries itself: the base branch of a dictionary that
\* has one.
OwnTarget(pr) == IF pr.isdict THEN pr.base_ref ELSE ""

\* C22: a request that carries its own target, a branch the clone knows on the
\* remote, is merged into that target: its result names that target and so do
\* the checkouts of the request that name an existing branch; a request that
\* carries none gets the detected default branch.
C22_OwnTargetUsed ==
    /\ \A k \in 1..Len(results) :
          LET own == OwnTarget(prs[results[k].req])
          IN  /\ own = "" => results[k].value.target = target
              /\ (own # "" /\ git.tracking[own].ok) =>
                     results[k].value.target = own
    /\ \A e \in LogIndex :
          (Log[e].req > 0 /\ Len(Log[e].args) = 2 /\ Log[e].args[1] = "checkout") =>
              LET own == OwnTarget(prs[Log[e].req])
              IN  /\ own = "" => Log[e].args[2] = target
                  /\ (own # "" /\ git.tracking[own].ok) => Log[e].args[2] = own


\* C23: in a run where no command failed for an outside reason: when
\* create_conflict_branch has returned True, the branch checked out is the
\* target, and so it is when the next request is taken up after a request
\* that ended "conflicts".
C23_ConflictSuccessBackOnTarget ==
    Faults(Log) = 0 =>
        /\ (pc = "create_conflict_branch_returned" /\ handled) =>
               git.head = target
        /\ (/\ pc = "try_merge"
            /\ results # <<>>
            /\ results[Len(results)].value.status = "conflicts") =>
               git.head = target


\* C24: whenever the processing of a request begins, the repository carries
\* nothing of an earlier request: no merge is in progress, no path is
\* unmerged, and nothing is staged, neither the content of a merge nor
\* MERGE_CONFLICTS.json.
C24_RequestStartsClean ==
    pc = "try_merge" => (~git.mergeHead.ok /\ ~IndexDirty(git))


\* The source branches whose merge is part of a commit.
MergesIn(c) == c.has \cap Sources

\* C25: once the summary is printed, every merge that is part of the remote
\* target branch belongs to a request of the merged list.
C25_PublishedMergesAreReported ==
    summary.printed =>
        \A s \in MergesIn(git.remote[target]) :
            \E k \in 1..Len(merged_prs) : merged_prs[k].branch = s


ConflictBranches == {ConflictBranch(s) : s \in Sources}

\* C26: the requests a branch scan hands to the pipeline name no conflict
\* branch, and no command creates or pushes the conflict branch of a conflict
\* branch.
C26_ConflictBranchNotScanned ==
    /\ (argv.script = "pr_manager" /\ argv.mode = "scan") =>
          \A k \in 1..Len(prs) : BranchOf(prs[k]) \notin ConflictBranches
    /\ \A e \in LogIndex : \A b \in ConflictBranches :
          /\ ~(IsCreate(Log[e]) /\ Log[e].args[3] = ConflictBranch(b))
          /\ Log[e].args # <<"push", "origin", ConflictBranch(b)>>

====
